---- MODULE Spec2Model ----
(***************************************************************************)
(* Model of the token-holder fund distribution lambda (src/main.go):       *)
(* HandleEvent, the orchestration of two vault transfers and two contract  *)
(* calls, and waitForTx, the confirmation wait on a chain backend.         *)
(***************************************************************************)
EXTENDS Integers, Sequences, FiniteSets, TLC

\* ------------------------------------------------------------------------
\* Bounds of the model
\* ------------------------------------------------------------------------
\* gas prices the chain client may suggest: 0..MaxGasPrice
MaxGasPrice == 10
\* vault balances are drawn around the fee reserve: feeReserve-MaxDelta..feeReserve+MaxDelta
MaxDelta == 4
\* largest number of "not found" answers the backend gives to one waitForTx
MaxNotFound == 2

\* ------------------------------------------------------------------------
\* Program constants
\* ------------------------------------------------------------------------
gasLimit == 21000
int2 == 2
int3 == 3
\* time.After(4 * time.Second)
PollInterval == 4
\* a balance far above the fee reserve of every gas price of the model
LargeBalances == {900000}

\* the four transactions of a run, in program order
Steps == 1..4

\* the values of event.Time the trigger may supply
Timestamps == {"2019-01-01T00:00:00Z", "2019-06-30T23:59:59Z"}

\* answers of backend.TransactionReceipt
Answers == {"notFound", "error", "failedReceipt", "successReceipt"}

VARIABLES
    pc,             \* position of HandleEvent
    wpc,            \* position of waitForTx: "idle", "select", "query"
    manualCommit,   \* the backend implements the commiter interface
    cancelled,      \* ctx.Done() is closed
    cancelledAt,    \* where HandleEvent and waitForTx were when ctx was cancelled
    eventTime,      \* event.Time
    gasPrice,       \* result of SuggestGasPrice
    rawBalance,     \* what BalanceAt returned
    vaultBalance,   \* the big.Int vaultBalance (mutated in place by Sub)
    authValue,      \* vaultAuth.Value
    chainLog,       \* the gas price and balance queries made so far, in order
    submitted,      \* the transactions sent so far, in order
    txState,        \* per step: "none", "pending", "confirmed", "abandoned"
    answers,        \* per step: the answers TransactionReceipt gave
    commits,        \* per step: calls of Commit()
    intervals,      \* per step: completed time.After waits
    lateQueries,    \* per step: receipt queries issued after ctx was cancelled
    waitResult,     \* per step: what waitForTx returned
    retMsg,         \* returned string
    retErr          \* returned error: "" (nil) or the format string of formatError

vars == <<pc, wpc, manualCommit, cancelled, cancelledAt, eventTime, gasPrice, rawBalance,
          vaultBalance, authValue, chainLog, submitted, txState, answers, commits,
          intervals, lateQueries, waitResult, retMsg, retErr>>

ctxVars == <<cancelled, cancelledAt>>
waitVars == <<wpc, txState, answers, commits, intervals, lateQueries, waitResult>>
moneyVars == <<gasPrice, rawBalance, vaultBalance, authValue>>

\* ------------------------------------------------------------------------
\* Pure arithmetic of HandleEvent
\* ------------------------------------------------------------------------
\* variant: the fee of one transfer only is reserved
FeeReserveSingle(price) == gasLimit * price

\* new(big.Int).Mul(big.NewInt(gasLimit*2), gasPrice)
FeeReserve(price) == (gasLimit * 2) * price

\* vaultBalance.Sub(vaultBalance, fee)
NetBalance(balance, price) == balance - FeeReserve(price)

\* variant: a net balance too small to give a non-zero share is rejected
NotPositiveBelowThree(net) == net < int3

\* variant: the check compares with Cmp(0) == -1, so a zero net balance passes
NotPositiveStrict(net) == net < 0

\* vaultBalance.Cmp(big.NewInt(0)) != 1
NotPositive(net) == ~(net > 0)

\* new(big.Int).Div(vaultBalance, int3)
PrimaryShare(net) == net \div int3

\* variant: the multiplication by int2 is done before the division by int3
SecondaryShareMulFirst(net) == (net * int2) \div int3

\* new(big.Int).Mul(new(big.Int).Div(vaultBalance, int3), int2)
SecondaryShare(net) == (net \div int3) * int2

\* fmt.Sprintf("Token holder event successfully called at %s!", event.Time)
SuccessMessage(t) == <<"Token holder event successfully called at ", t, "!">>

\* balances the vault may hold when the suggested gas price is price
Balances(price) ==
    {b \in (FeeReserve(price) - MaxDelta)..(FeeReserve(price) + MaxDelta) : b >= 0}
        \cup LargeBalances

\* a query of the chain client made by HandleEvent, and whether it succeeded
ChainQuery(op, ok) == [op |-> op, ok |-> ok]

\* variant: the error is logged and dropped, the run returns "", nil
FailSwallowed(format) ==
    /\ pc' = "returned"
    /\ retMsg' = ""
    /\ retErr' = ""

\* formatError: the run ends with an empty string and an error
Fail(format) ==
    /\ pc' = "returned"
    /\ retMsg' = ""
    /\ retErr' = format

Init ==
    /\ pc = "configParse"
    /\ wpc = "idle"
    /\ manualCommit \in BOOLEAN
    /\ cancelled = FALSE
    /\ cancelledAt = [pc |-> "", wpc |-> ""]
    /\ eventTime \in Timestamps
    /\ gasPrice = 0
    /\ rawBalance = 0
    /\ vaultBalance = 0
    /\ authValue = 0
    /\ chainLog = <<>>
    /\ submitted = <<>>
    /\ txState = [k \in Steps |-> "none"]
    /\ answers = [k \in Steps |-> <<>>]
    /\ commits = [k \in Steps |-> 0]
    /\ intervals = [k \in Steps |-> 0]
    /\ lateQueries = [k \in Steps |-> 0]
    /\ waitResult = [k \in Steps |-> "none"]
    /\ retMsg = ""
    /\ retErr = ""

\* ------------------------------------------------------------------------
\* The cancellation / deadline signal of ctx
\* ------------------------------------------------------------------------
Cancel ==
    /\ pc # "returned"
    /\ ~cancelled
    /\ cancelled' = TRUE
    /\ cancelledAt' = [pc |-> pc, wpc |-> wpc]
    /\ UNCHANGED <<pc, manualCommit, eventTime, submitted, retMsg, retErr>>
    /\ UNCHANGED chainLog
    /\ UNCHANGED waitVars
    /\ UNCHANGED moneyVars

\* ------------------------------------------------------------------------
\* HandleEvent, up to the positivity check
\* ------------------------------------------------------------------------
ConfigParse ==
    /\ pc = "configParse"
    /\ \/ Fail("Unable to parse environment variables with error : %s")
       \/ pc' = "dial" /\ UNCHANGED <<retMsg, retErr>>
    /\ UNCHANGED <<manualCommit, eventTime, submitted>>
    /\ UNCHANGED ctxVars
    /\ UNCHANGED chainLog
    /\ UNCHANGED waitVars
    /\ UNCHANGED moneyVars

Dial ==
    /\ pc = "dial"
    /\ \/ Fail("Failed to call ethereum client with error : %s")
       \/ pc' = "suggestGasPrice" /\ UNCHANGED <<retMsg, retErr>>
    /\ UNCHANGED <<manualCommit, eventTime, submitted>>
    /\ UNCHANGED ctxVars
    /\ UNCHANGED chainLog
    /\ UNCHANGED waitVars
    /\ UNCHANGED moneyVars

\* variant: the error of SuggestGasPrice is dropped, the run goes on with price 0
SuggestGasPriceIgnoresError ==
    /\ pc = "suggestGasPrice"
    /\ \/ /\ gasPrice' = 0
          /\ chainLog' = Append(chainLog, ChainQuery("SuggestGasPrice", FALSE))
       \/ /\ \E p \in 0..MaxGasPrice : gasPrice' = p
          /\ chainLog' = Append(chainLog, ChainQuery("SuggestGasPrice", TRUE))
    /\ pc' = "vaultKey"
    /\ UNCHANGED <<retMsg, retErr>>
    /\ UNCHANGED <<manualCommit, eventTime, submitted>>
    /\ UNCHANGED ctxVars
    /\ UNCHANGED <<rawBalance, vaultBalance, authValue>>
    /\ UNCHANGED waitVars

SuggestGasPrice ==
    /\ pc = "suggestGasPrice"
    /\ \/ /\ Fail("Failed to get gas price from ethereum client with error : %s")
          /\ UNCHANGED gasPrice
          /\ chainLog' = Append(chainLog, ChainQuery("SuggestGasPrice", FALSE))
       \/ /\ \E p \in 0..MaxGasPrice : gasPrice' = p
          /\ chainLog' = Append(chainLog, ChainQuery("SuggestGasPrice", TRUE))
          /\ pc' = "vaultKey"
          /\ UNCHANGED <<retMsg, retErr>>
    /\ UNCHANGED <<manualCommit, eventTime, submitted>>
    /\ UNCHANGED ctxVars
    /\ UNCHANGED <<rawBalance, vaultBalance, authValue>>
    /\ UNCHANGED waitVars

VaultKey ==
    /\ pc = "vaultKey"
    /\ \/ Fail("Failed to parse ecdsa private key from deqode vault private key sting with error : %s")
       \/ pc' = "processingKey" /\ UNCHANGED <<retMsg, retErr>>
    /\ UNCHANGED <<manualCommit, eventTime, submitted>>
    /\ UNCHANGED ctxVars
    /\ UNCHANGED chainLog
    /\ UNCHANGED waitVars
    /\ UNCHANGED moneyVars

ProcessingKey ==
    /\ pc = "processingKey"
    /\ \/ Fail("Failed to parse ecdsa private key from token holder processing key string with error : %s")
       \/ pc' = "balanceAt" /\ UNCHANGED <<retMsg, retErr>>
    /\ UNCHANGED <<manualCommit, eventTime, submitted>>
    /\ UNCHANGED ctxVars
    /\ UNCHANGED chainLog
    /\ UNCHANGED waitVars
    /\ UNCHANGED moneyVars

BalanceAt ==
    /\ pc = "balanceAt"
    /\ \/ /\ Fail("Failed to get balance for vault with error : %s")
          /\ UNCHANGED <<rawBalance, vaultBalance>>
          /\ chainLog' = Append(chainLog, ChainQuery("BalanceAt", FALSE))
       \/ /\ \E b \in Balances(gasPrice) :
                /\ rawBalance' = b
                /\ vaultBalance' = b
          /\ chainLog' = Append(chainLog, ChainQuery("BalanceAt", TRUE))
          /\ pc' = "feeCheck"
          /\ UNCHANGED <<retMsg, retErr>>
    /\ UNCHANGED <<manualCommit, eventTime, submitted>>
    /\ UNCHANGED ctxVars
    /\ UNCHANGED <<gasPrice, authValue>>
    /\ UNCHANGED waitVars

\* lines 101-107: subtract the fee reserve, then the positivity check
FeeCheck ==
    /\ pc = "feeCheck"
    /\ vaultBalance' = NetBalance(vaultBalance, gasPrice)
    /\ IF NotPositive(vaultBalance')
         THEN Fail("Not enough balance in vault to cover txn fees")
         ELSE pc' = "transfer1" /\ UNCHANGED <<retMsg, retErr>>
    /\ UNCHANGED <<manualCommit, eventTime, submitted>>
    /\ UNCHANGED ctxVars
    /\ UNCHANGED chainLog
    /\ UNCHANGED <<gasPrice, rawBalance, authValue>>
    /\ UNCHANGED waitVars

\* ------------------------------------------------------------------------
\* Submission of the four transactions
\* ------------------------------------------------------------------------
\* a transaction request as the chain client receives it
Tx(step, from, to, value) ==
    [step |-> step, from |-> from, to |-> to, value |-> value]

\* variant: the transaction is sent and HandleEvent goes on without waitForTx
SubmitNoWait(k, tx, waitPc) ==
    /\ submitted' = Append(submitted, tx)
    /\ txState' = [txState EXCEPT ![k] = "pending"]
    /\ pc' = <<"transfer2", "newContract", "buyVouchers", "success">>[k]
    /\ wpc' = "idle"
    /\ UNCHANGED <<retMsg, retErr>>

\* the transaction was sent: it is pending and waitForTx is called with its hash
Submit(k, tx, waitPc) ==
    /\ submitted' = Append(submitted, tx)
    /\ txState' = [txState EXCEPT ![k] = "pending"]
    /\ pc' = waitPc
    /\ wpc' = "entry"
    /\ UNCHANGED <<retMsg, retErr>>

\* the formatError of HandleEvent when the submission of step k failed
SubmitErrorFormat ==
    << "Failed to transfer vault balance to token holder contract with error : %s",
       "Failed to transfer vault balance to deqode address with error : %s",
       "Failed to  call sell vouchers of token holder program contract with error : %s",
       "Failed to  call buy vouchers of token holder program contract with error : %s" >>

\* the transaction could not be sent
SubmitFail(k) ==
    /\ Fail(SubmitErrorFormat[k])
    /\ UNCHANGED <<submitted, txState, wpc>>

\* lines 114-119: 1/3 of the net balance to the token holder contract
Transfer1 ==
    /\ pc = "transfer1"
    /\ authValue' = PrimaryShare(vaultBalance)
    /\ \/ SubmitFail(1)
       \/ Submit(1, Tx("transfer1", "deqodeVault", "tokenHolderContractAddress", authValue'), "wait1")
    /\ UNCHANGED <<manualCommit, eventTime>>
    /\ UNCHANGED ctxVars
    /\ UNCHANGED chainLog
    /\ UNCHANGED <<gasPrice, rawBalance, vaultBalance>>
    /\ UNCHANGED <<answers, commits, intervals, lateQueries, waitResult>>

\* variant: the second transfer reuses the value of the first
Transfer2SameValue ==
    /\ pc = "transfer2"
    /\ authValue' = authValue
    /\ \/ SubmitFail(2)
       \/ Submit(2, Tx("transfer2", "deqodeVault", "deqodeAddress", authValue'), "wait2")
    /\ UNCHANGED <<manualCommit, eventTime>>
    /\ UNCHANGED ctxVars
    /\ UNCHANGED chainLog
    /\ UNCHANGED <<gasPrice, rawBalance, vaultBalance>>
    /\ UNCHANGED <<answers, commits, intervals, lateQueries, waitResult>>

\* lines 127-132: 2/3 of the net balance to the deqode address
Transfer2 ==
    /\ pc = "transfer2"
    /\ authValue' = SecondaryShare(vaultBalance)
    /\ \/ SubmitFail(2)
       \/ Submit(2, Tx("transfer2", "deqodeVault", "deqodeAddress", authValue'), "wait2")
    /\ UNCHANGED <<manualCommit, eventTime>>
    /\ UNCHANGED ctxVars
    /\ UNCHANGED chainLog
    /\ UNCHANGED <<gasPrice, rawBalance, vaultBalance>>
    /\ UNCHANGED <<answers, commits, intervals, lateQueries, waitResult>>

\* lines 140-144: binding of the token holder program contract
NewContract ==
    /\ pc = "newContract"
    /\ \/ Fail("Failed to load token holder contract for address %s with error : %s")
       \/ pc' = "sellVouchers" /\ UNCHANGED <<retMsg, retErr>>
    /\ UNCHANGED <<manualCommit, eventTime, submitted>>
    /\ UNCHANGED ctxVars
    /\ UNCHANGED chainLog
    /\ UNCHANGED waitVars
    /\ UNCHANGED moneyVars

\* lines 146-151: sell vouchers, signed with the token holder processing key
SellVouchers ==
    /\ pc = "sellVouchers"
    /\ \/ SubmitFail(3)
       \/ Submit(3, Tx("sellVouchers", "tokenHolderProcessing", "tokenHolderContractAddress", 0), "wait3")
    /\ UNCHANGED <<manualCommit, eventTime>>
    /\ UNCHANGED ctxVars
    /\ UNCHANGED chainLog
    /\ UNCHANGED moneyVars
    /\ UNCHANGED <<answers, commits, intervals, lateQueries, waitResult>>

\* lines 159-163: buy vouchers, signed with the same key
BuyVouchers ==
    /\ pc = "buyVouchers"
    /\ \/ SubmitFail(4)
       \/ Submit(4, Tx("buyVouchers", "tokenHolderProcessing", "tokenHolderContractAddress", 0), "wait4")
    /\ UNCHANGED <<manualCommit, eventTime>>
    /\ UNCHANGED ctxVars
    /\ UNCHANGED chainLog
    /\ UNCHANGED moneyVars
    /\ UNCHANGED <<answers, commits, intervals, lateQueries, waitResult>>

\* ------------------------------------------------------------------------
\* waitForTx and the error check that follows each of its four calls
\* ------------------------------------------------------------------------
WaitPc == <<"wait1", "wait2", "wait3", "wait4">>

\* where HandleEvent continues when waitForTx of step k returned nil
AfterWait == <<"transfer2", "newContract", "buyVouchers", "success">>

\* the formatError of HandleEvent when waitForTx of step k returned an error
WaitErrorFormat ==
    << "Fund transfer txn with hash %s failed  with error : %s",
       "Fund transfer txn with hash %s failed  with error : %s",
       "Sell vouchers txn with hash %s failed  with error : %s",
       "Buy vouchers txn with hash %s failed  with error : %s" >>

\* number of "not found" answers in a history of answers
RECURSIVE NotFoundCount(_)
NotFoundCount(h) ==
    IF h = <<>> THEN 0
    ELSE (IF Head(h) = "notFound" THEN 1 ELSE 0) + NotFoundCount(Tail(h))

\* the answers the backend can give after the history h
BackendAnswers(h) ==
    {a \in Answers : a = "notFound" => NotFoundCount(h) < MaxNotFound}

\* variant: HandleEvent drops the error of waitForTx and goes on
WaitReturnIgnoresError(k, result) ==
    /\ waitResult' = [waitResult EXCEPT ![k] = result]
    /\ wpc' = "idle"
    /\ txState' = [txState EXCEPT ![k] = IF result = "nil" THEN "confirmed" ELSE "abandoned"]
    /\ pc' = AfterWait[k]
    /\ UNCHANGED <<retMsg, retErr>>

\* variant: a step whose waitForTx failed is submitted again
WaitReturnRetries(k, result) ==
    /\ waitResult' = [waitResult EXCEPT ![k] = result]
    /\ wpc' = "idle"
    /\ txState' = [txState EXCEPT ![k] = IF result = "nil" THEN "confirmed" ELSE "abandoned"]
    /\ pc' = IF result = "nil" THEN AfterWait[k]
             ELSE <<"transfer1", "transfer2", "sellVouchers", "buyVouchers">>[k]
    /\ UNCHANGED <<retMsg, retErr>>

\* waitForTx of step k returns result; HandleEvent checks err != nil
WaitReturn(k, result) ==
    /\ waitResult' = [waitResult EXCEPT ![k] = result]
    /\ wpc' = "idle"
    /\ IF result = "nil"
         THEN /\ txState' = [txState EXCEPT ![k] = "confirmed"]
              /\ pc' = AfterWait[k]
              /\ UNCHANGED <<retMsg, retErr>>
         ELSE /\ txState' = [txState EXCEPT ![k] = "abandoned"]
              /\ Fail(WaitErrorFormat[k])

\* variant: the status of the receipt is not looked at
ReceiptResultNoStatus(a) ==
    CASE a = "error" -> "queryErr"
      [] a = "failedReceipt" -> "nil"
      [] a = "successReceipt" -> "nil"

\* what waitForTx returns on the answer a of TransactionReceipt, a # "notFound"
ReceiptResult(a) ==
    CASE a = "error" -> "queryErr"
      [] a = "failedReceipt" -> "txFailed"
      [] a = "successReceipt" -> "nil"

\* the record of a receipt query: the answer, and whether ctx was already done
RecordQuery(k, a) ==
    /\ answers' = [answers EXCEPT ![k] = Append(@, a)]
    /\ lateQueries' = [lateQueries EXCEPT ![k] = @ + (IF cancelled THEN 1 ELSE 0)]

\* variant: the polling loop queries first and waits afterwards
WaitEntryQueryFirst(k) ==
    /\ pc = WaitPc[k]
    /\ wpc = "entry"
    /\ IF manualCommit
         THEN /\ commits' = [commits EXCEPT ![k] = @ + 1]
              /\ wpc' = "receipt"
         ELSE /\ wpc' = "query"
              /\ UNCHANGED commits
    /\ UNCHANGED <<pc, manualCommit, eventTime, submitted, retMsg, retErr>>
    /\ UNCHANGED ctxVars
    /\ UNCHANGED chainLog
    /\ UNCHANGED <<txState, answers, intervals, lateQueries, waitResult>>
    /\ UNCHANGED moneyVars

\* lines 184-185: the type assertion, and sim.Commit() when it holds
WaitEntry(k) ==
    /\ pc = WaitPc[k]
    /\ wpc = "entry"
    /\ IF manualCommit
         THEN /\ commits' = [commits EXCEPT ![k] = @ + 1]
              /\ wpc' = "receipt"
         ELSE /\ wpc' = "select"
              /\ UNCHANGED commits
    /\ UNCHANGED <<pc, manualCommit, eventTime, submitted, retMsg, retErr>>
    /\ UNCHANGED ctxVars
    /\ UNCHANGED chainLog
    /\ UNCHANGED <<txState, answers, intervals, lateQueries, waitResult>>
    /\ UNCHANGED moneyVars

\* variant: a receipt not yet found sends the manual-commit branch into the loop
CommitReceiptFallsThrough(k) ==
    /\ pc = WaitPc[k]
    /\ wpc = "receipt"
    /\ \E a \in BackendAnswers(answers[k]) :
          /\ RecordQuery(k, a)
          /\ IF a = "notFound"
               THEN /\ wpc' = "select"
                    /\ UNCHANGED <<pc, txState, waitResult, retMsg, retErr>>
               ELSE WaitReturn(k, ReceiptResult(a))
    /\ UNCHANGED <<manualCommit, eventTime, submitted>>
    /\ UNCHANGED ctxVars
    /\ UNCHANGED chainLog
    /\ UNCHANGED <<commits, intervals>>
    /\ UNCHANGED moneyVars

\* lines 186-193: the single receipt check of the manual-commit branch
CommitReceipt(k) ==
    /\ pc = WaitPc[k]
    /\ wpc = "receipt"
    /\ \E a \in Answers :
          /\ RecordQuery(k, a)
          /\ WaitReturn(k, IF a = "notFound" THEN "queryErr" ELSE ReceiptResult(a))
    /\ UNCHANGED <<manualCommit, eventTime, submitted>>
    /\ UNCHANGED ctxVars
    /\ UNCHANGED chainLog
    /\ UNCHANGED <<commits, intervals>>
    /\ UNCHANGED moneyVars

\* variant: on ctx.Done() waitForTx returns nil
SelectDoneReturnsNil(k) ==
    /\ pc = WaitPc[k]
    /\ wpc = "select"
    /\ cancelled
    /\ WaitReturn(k, "nil")
    /\ UNCHANGED <<manualCommit, eventTime, submitted>>
    /\ UNCHANGED ctxVars
    /\ UNCHANGED chainLog
    /\ UNCHANGED <<answers, commits, intervals, lateQueries>>
    /\ UNCHANGED moneyVars

\* lines 197-199: ctx.Done() is ready, waitForTx returns ctx.Err()
SelectDone(k) ==
    /\ pc = WaitPc[k]
    /\ wpc = "select"
    /\ cancelled
    /\ WaitReturn(k, "ctxErr")
    /\ UNCHANGED <<manualCommit, eventTime, submitted>>
    /\ UNCHANGED ctxVars
    /\ UNCHANGED chainLog
    /\ UNCHANGED <<answers, commits, intervals, lateQueries>>
    /\ UNCHANGED moneyVars

\* variant: the select has no ctx.Done() case, only the timer
SelectTimerOnly(k) ==
    /\ pc = WaitPc[k]
    /\ wpc = "select"
    /\ intervals' = [intervals EXCEPT ![k] = @ + 1]
    /\ wpc' = "query"
    /\ UNCHANGED <<pc, manualCommit, eventTime, submitted, retMsg, retErr>>
    /\ UNCHANGED ctxVars
    /\ UNCHANGED chainLog
    /\ UNCHANGED <<txState, answers, commits, lateQueries, waitResult>>
    /\ UNCHANGED moneyVars

\* line 200: the timer of time.After fires before ctx is done
SelectTimer(k) ==
    /\ pc = WaitPc[k]
    /\ wpc = "select"
    /\ ~cancelled
    /\ intervals' = [intervals EXCEPT ![k] = @ + 1]
    /\ wpc' = "query"
    /\ UNCHANGED <<pc, manualCommit, eventTime, submitted, retMsg, retErr>>
    /\ UNCHANGED ctxVars
    /\ UNCHANGED chainLog
    /\ UNCHANGED <<txState, answers, commits, lateQueries, waitResult>>
    /\ UNCHANGED moneyVars

\* variant: every error of the receipt query is retried, not only NotFound
PollReceiptRetriesErrors(k) ==
    /\ pc = WaitPc[k]
    /\ wpc = "query"
    /\ \E a \in BackendAnswers(answers[k]) :
          /\ RecordQuery(k, a)
          /\ IF a = "notFound" \/ (a = "error" /\ Len(answers[k]) < MaxNotFound)
               THEN /\ wpc' = "select"
                    /\ UNCHANGED <<pc, txState, waitResult, retMsg, retErr>>
               ELSE WaitReturn(k, ReceiptResult(a))
    /\ UNCHANGED <<manualCommit, eventTime, submitted>>
    /\ UNCHANGED ctxVars
    /\ UNCHANGED chainLog
    /\ UNCHANGED <<commits, intervals>>
    /\ UNCHANGED moneyVars

\* lines 203-215: one receipt query of the polling loop
PollReceipt(k) ==
    /\ pc = WaitPc[k]
    /\ wpc = "query"
    /\ \E a \in BackendAnswers(answers[k]) :
          /\ RecordQuery(k, a)
          /\ IF a = "notFound"
               THEN /\ wpc' = "select"
                    /\ UNCHANGED <<pc, txState, waitResult, retMsg, retErr>>
               ELSE WaitReturn(k, ReceiptResult(a))
    /\ UNCHANGED <<manualCommit, eventTime, submitted>>
    /\ UNCHANGED ctxVars
    /\ UNCHANGED chainLog
    /\ UNCHANGED <<commits, intervals>>
    /\ UNCHANGED moneyVars

\* line 171: the success message
Success ==
    /\ pc = "success"
    /\ pc' = "returned"
    /\ retMsg' = SuccessMessage(eventTime)
    /\ retErr' = ""
    /\ UNCHANGED <<manualCommit, eventTime, submitted>>
    /\ UNCHANGED ctxVars
    /\ UNCHANGED chainLog
    /\ UNCHANGED waitVars
    /\ UNCHANGED moneyVars

Next ==
    \/ Cancel
    \/ ConfigParse
    \/ Dial
    \/ SuggestGasPrice
    \/ VaultKey
    \/ ProcessingKey
    \/ BalanceAt
    \/ FeeCheck
    \/ Transfer1
    \/ Transfer2
    \/ NewContract
    \/ SellVouchers
    \/ BuyVouchers
    \/ \E k \in Steps : WaitEntry(k)
    \/ \E k \in Steps : CommitReceipt(k)
    \/ \E k \in Steps : SelectDone(k)
    \/ \E k \in Steps : SelectTimer(k)
    \/ \E k \in Steps : PollReceipt(k)
    \/ Success

Spec == Init /\ [][Next]_vars

\* ------------------------------------------------------------------------
\* Vocabulary of the properties
\* ------------------------------------------------------------------------
\* the positions of HandleEvent before the positivity check has been made
BeforeFeeCheck ==
    {"configParse", "dial", "suggestGasPrice", "vaultKey", "processingKey",
     "balanceAt", "feeCheck"}

\* the errors HandleEvent returns before the positivity check
EarlyErrors ==
    {"Unable to parse environment variables with error : %s",
     "Failed to call ethereum client with error : %s",
     "Failed to get gas price from ethereum client with error : %s",
     "Failed to parse ecdsa private key from deqode vault private key sting with error : %s",
     "Failed to parse ecdsa private key from token holder processing key string with error : %s",
     "Failed to get balance for vault with error : %s"}

InsufficientFunds == "Not enough balance in vault to cover txn fees"

\* the fee reserve has been subtracted and the positivity check made
FeeChecked ==
    /\ pc \notin BeforeFeeCheck
    /\ pc = "returned" => retErr \notin EarlyErrors

\* step k failed: its submission failed, or its waitForTx returned an error
SubmissionFailed(k) == pc = "returned" /\ retErr = SubmitErrorFormat[k] /\ txState[k] = "none"
ConfirmationFailed(k) == txState[k] = "abandoned"
StepFailed(k) == SubmissionFailed(k) \/ ConfirmationFailed(k)

\* the steps that were submitted
Sent == {k \in Steps : txState[k] # "none"}

\* ------------------------------------------------------------------------
\* C1: a failure of any step (submission or confirmation) ends the run with
\* an error, and no later step is ever submitted; after a failure of the
\* first transfer, transfer 2, sell vouchers and buy vouchers are not invoked.
\* ------------------------------------------------------------------------
C1_FailureShortCircuits ==
    \A k \in Steps :
        StepFailed(k) =>
            /\ pc = "returned"
            /\ retErr # ""
            /\ retMsg = ""
            /\ \A j \in Steps : j > k => txState[j] = "none"
            /\ Len(submitted) = (IF ConfirmationFailed(k) THEN k ELSE k - 1)

C1_Witness ==
    /\ ConfirmationFailed(1)
    /\ pc = "returned"
    /\ Len(submitted) = 1

\* ------------------------------------------------------------------------
\* C2: at most one transaction is in flight: step k+1 is submitted only
\* after waitForTx of step k returned nil, and no two submitted transactions
\* are unconfirmed together.
\* ------------------------------------------------------------------------
C2_OneInFlight ==
    /\ \A k \in Steps :
          (k > 1 /\ txState[k] # "none") =>
              txState[k - 1] = "confirmed" /\ waitResult[k - 1] = "nil"
    /\ Cardinality({k \in Sent : txState[k] # "confirmed"}) <= 1
    /\ Len(submitted) = Cardinality(Sent)

C2_Witness ==
    /\ txState[1] = "confirmed"
    /\ txState[2] = "confirmed"
    /\ txState[3] = "pending"

\* ------------------------------------------------------------------------
\* C3: when the balance read exceeds gasLimit*2*gasPrice the positivity
\* check passes, the net balance is the balance minus gasLimit*2*gasPrice,
\* transfer 1 carries floor(net/3), transfer 2 carries exactly twice that,
\* and the two values together do not exceed the net balance.
\* ------------------------------------------------------------------------
C3_DistributionOnSufficientBalance ==
    (FeeChecked /\ rawBalance > gasLimit * 2 * gasPrice) =>
        /\ retErr # InsufficientFunds
        /\ vaultBalance = rawBalance - gasLimit * 2 * gasPrice
        /\ 1 \in Sent =>
              /\ 3 * submitted[1].value <= vaultBalance
              /\ vaultBalance < 3 * submitted[1].value + 3
        /\ 2 \in Sent =>
              /\ submitted[2].value = 2 * submitted[1].value
              /\ submitted[1].value + submitted[2].value <= vaultBalance

C3_Witness ==
    /\ 2 \in Sent
    /\ rawBalance > gasLimit * 2 * gasPrice
    /\ vaultBalance = 2
    /\ gasPrice > 0

\* ------------------------------------------------------------------------
\* C4: when the balance read is at most gasLimit*2*gasPrice (net balance
\* zero or negative) the run fails with the insufficient-funds error.
\* ------------------------------------------------------------------------
C4_InsufficientFunds ==
    (FeeChecked /\ rawBalance <= gasLimit * 2 * gasPrice) =>
        /\ pc = "returned"
        /\ retMsg = ""
        /\ retErr = InsufficientFunds
        /\ submitted = <<>>

C4_Witness ==
    /\ FeeChecked
    /\ gasPrice > 0
    /\ rawBalance = gasLimit * 2 * gasPrice
    /\ retErr = InsufficientFunds

\* the wait of step k ran in the polling loop
Polling(k) == ~manualCommit /\ txState[k] # "none"

\* waitForTx of step k has returned
Returned(k) == waitResult[k] # "none"

\* the time waitForTx of step k has spent in time.After
Elapsed(k) == intervals[k] * PollInterval

NotFoundTwiceThenSuccess == <<"notFound", "notFound", "successReceipt">>

\* ctx was cancelled while waitForTx of step k was in its polling loop
CancelledInLoop(k) ==
    /\ ~manualCommit
    /\ cancelledAt.pc = WaitPc[k]
    /\ cancelledAt.wpc \in {"select", "query"}

\* ctx was cancelled while waitForTx of step k was blocked in the select
CancelledInSelect(k) ==
    /\ ~manualCommit
    /\ cancelledAt.pc = WaitPc[k]
    /\ cancelledAt.wpc = "select"

\* ------------------------------------------------------------------------
\* C5 (as stated): in polling mode, with a backend answering not-found
\* twice and then a successful receipt, waitForTx returns nil after exactly
\* two poll intervals.
\* ------------------------------------------------------------------------
C5_TwoIntervals ==
    \A k \in Steps :
        (Polling(k) /\ answers[k] = NotFoundTwiceThenSuccess) =>
            /\ waitResult[k] = "nil"
            /\ Elapsed(k) = 2 * PollInterval

\* ------------------------------------------------------------------------
\* C5 (amended): in polling mode, with a backend answering not-found twice
\* and then a successful receipt, waitForTx returns nil after exactly three
\* poll intervals: every receipt query, the first included, is preceded by
\* one interval of PollInterval time units.
\* ------------------------------------------------------------------------
C5_ThreeIntervals ==
    \A k \in Steps :
        (Polling(k) /\ answers[k] = NotFoundTwiceThenSuccess) =>
            /\ waitResult[k] = "nil"
            /\ txState[k] = "confirmed"
            /\ Elapsed(k) = 3 * PollInterval

C5_Witness ==
    /\ Polling(1)
    /\ ~cancelled
    /\ answers[1] = NotFoundTwiceThenSuccess
    /\ waitResult[1] = "nil"

\* ------------------------------------------------------------------------
\* C6 (as stated): when ctx is cancelled while waitForTx is in its polling
\* loop, waitForTx returns the cancellation error and no receipt query is
\* issued after the cancellation.
\* ------------------------------------------------------------------------
C6_CancelAnywhereInLoop ==
    \A k \in Steps :
        CancelledInLoop(k) =>
            /\ lateQueries[k] = 0
            /\ Returned(k) => waitResult[k] = "ctxErr"

\* ------------------------------------------------------------------------
\* C6 (amended): when ctx is cancelled while waitForTx is blocked in the
\* interval wait of its polling loop, waitForTx returns the cancellation
\* error and no receipt query is issued after the cancellation; when it is
\* cancelled after the interval elapsed, the one query that is due is still
\* issued, and only a not-found answer to it leads to the cancellation error.
\* ------------------------------------------------------------------------
C6_CancelInSelect ==
    \A k \in Steps :
        /\ CancelledInSelect(k) =>
              /\ lateQueries[k] = 0
              /\ Returned(k) => waitResult[k] = "ctxErr" /\ pc = "returned"
              /\ ~Returned(k) => pc = WaitPc[k] /\ wpc = "select"
        /\ CancelledInLoop(k) =>
              /\ lateQueries[k] <= 1
              /\ (Returned(k) /\ waitResult[k] # "ctxErr") => lateQueries[k] = 1
              /\ (lateQueries[k] = 1 /\ waitResult[k] = "ctxErr") =>
                     answers[k][Len(answers[k])] = "notFound"

C6_Witness ==
    /\ CancelledInSelect(2)
    /\ Len(answers[2]) = 1
    /\ waitResult[2] = "ctxErr"

\* ------------------------------------------------------------------------
\* C7: in both modes a receipt whose status is not success makes waitForTx
\* fail with the receipt-failed error, and no receipt query follows it.
\* ------------------------------------------------------------------------
C7_FailedReceiptNoRetry ==
    \A k \in Steps :
        \A i \in 1..Len(answers[k]) :
            answers[k][i] = "failedReceipt" =>
                /\ i = Len(answers[k])
                /\ waitResult[k] = "txFailed"
                /\ txState[k] = "abandoned"
                /\ pc = "returned"
                /\ retErr = WaitErrorFormat[k]

C7_Witness ==
    /\ ~manualCommit
    /\ answers[3] = <<"notFound", "failedReceipt">>
    /\ waitResult[3] = "txFailed"

\* ------------------------------------------------------------------------
\* C8: in polling mode an error of the receipt query other than not-found
\* makes waitForTx fail with that error, and no query follows it; only
\* not-found answers keep waitForTx pending, and each query comes after an
\* interval of its own.
\* ------------------------------------------------------------------------
C8_OnlyNotFoundRetried ==
    \A k \in Steps :
        Polling(k) =>
            /\ \A i \in 1..Len(answers[k]) :
                  /\ answers[k][i] = "error" =>
                        /\ i = Len(answers[k])
                        /\ waitResult[k] = "queryErr"
                        /\ pc = "returned"
                  /\ i < Len(answers[k]) => answers[k][i] = "notFound"
            /\ (~Returned(k) /\ answers[k] # <<>>) =>
                  answers[k][Len(answers[k])] = "notFound"
            /\ intervals[k] = Len(answers[k]) + (IF pc = WaitPc[k] /\ wpc = "query" THEN 1 ELSE 0)

C8_Witness ==
    /\ Polling(1)
    /\ answers[1] = <<"notFound", "error">>
    /\ waitResult[1] = "queryErr"
    /\ intervals[1] = 2

\* ------------------------------------------------------------------------
\* C9: with a backend that has Commit(), every waitForTx calls Commit once,
\* queries the receipt once, and never enters the polling loop, for each of
\* the four transactions.
\* ------------------------------------------------------------------------
C9_ManualCommitSingleCheck ==
    manualCommit =>
        /\ wpc \notin {"select", "query"}
        /\ \A k \in Steps :
              /\ intervals[k] = 0
              /\ Returned(k) => commits[k] = 1 /\ Len(answers[k]) = 1
              /\ ~Returned(k) => commits[k] <= 1 /\ answers[k] = <<>>
              /\ k \notin Sent => commits[k] = 0

C9_Witness ==
    /\ manualCommit
    /\ pc = "returned"
    /\ retErr = ""
    /\ \A k \in Steps : commits[k] = 1 /\ Len(answers[k]) = 1

\* ------------------------------------------------------------------------
\* C10: a fully successful run has sent, in this order, the transfer of
\* floor(net/3) from the vault to the token holder contract, the transfer of
\* twice that from the vault to the deqode address, sell vouchers and buy
\* vouchers both signed with the processing key; with balance 900000 and gas
\* price 10 the fee reserve is 420000, the net balance 480000 and the values
\* 160000 and 320000; the message returned carries event.Time as supplied.
\* ------------------------------------------------------------------------
C10_SuccessfulRun ==
    (pc = "returned" /\ retErr = "") =>
        /\ Len(submitted) = 4
        /\ [i \in 1..4 |-> submitted[i].step] =
              <<"transfer1", "transfer2", "sellVouchers", "buyVouchers">>
        /\ [i \in 1..4 |-> submitted[i].from] =
              <<"deqodeVault", "deqodeVault", "tokenHolderProcessing", "tokenHolderProcessing">>
        /\ submitted[1].to = "tokenHolderContractAddress"
        /\ submitted[2].to = "deqodeAddress"
        /\ 3 * submitted[1].value <= vaultBalance
        /\ vaultBalance < 3 * submitted[1].value + 3
        /\ submitted[2].value = 2 * submitted[1].value
        /\ retMsg[2] = eventTime
        /\ (rawBalance = 900000 /\ gasPrice = 10) =>
              /\ rawBalance - vaultBalance = 420000
              /\ vaultBalance = 480000
              /\ submitted[1].value = 160000
              /\ submitted[2].value = 320000

C10_Witness ==
    /\ pc = "returned"
    /\ retErr = ""
    /\ rawBalance = 900000
    /\ gasPrice = 10
    /\ retMsg = SuccessMessage(eventTime)

\* the last answer TransactionReceipt gave to waitForTx of step k
LastAnswer(k) == answers[k][Len(answers[k])]

\* step k was submitted and waitForTx saw its successful receipt
ConfirmedOk(k) ==
    /\ txState[k] = "confirmed"
    /\ waitResult[k] = "nil"
    /\ answers[k] # <<>>
    /\ LastAnswer(k) = "successReceipt"

\* ------------------------------------------------------------------------
\* C11: HandleEvent returns the success message with a nil error only when
\* all four transactions were submitted and each was confirmed with a
\* successful receipt; every other run returns "" and a non-nil error.
\* ------------------------------------------------------------------------
C11_SuccessOnlyWhenAllConfirmed ==
    pc = "returned" =>
        IF \A k \in Steps : ConfirmedOk(k)
          THEN /\ retErr = ""
               /\ retMsg = SuccessMessage(eventTime)
               /\ Len(submitted) = 4
          ELSE /\ retErr # ""
               /\ retMsg = ""

C11_Witness ==
    /\ pc = "returned"
    /\ retErr # ""
    /\ retMsg = ""
    /\ \A k \in 1..3 : ConfirmedOk(k)
    /\ txState[4] = "abandoned"

\* the errors of the two HexToECDSA calls
KeyParseErrors ==
    {"Failed to parse ecdsa private key from deqode vault private key sting with error : %s",
     "Failed to parse ecdsa private key from token holder processing key string with error : %s"}

\* ------------------------------------------------------------------------
\* C12: a run that ends with a key or address parsing error has made no
\* query of the chain client (gas price, balance, receipt) and has submitted
\* no transaction.
\* ------------------------------------------------------------------------
C12_ParseErrorBeforeChain ==
    (pc = "returned" /\ retErr \in KeyParseErrors) =>
        /\ chainLog = <<>>
        /\ \A k \in Steps : answers[k] = <<>>
        /\ submitted = <<>>

\* the step of each of the four transactions, in program order
StepNames == <<"transfer1", "transfer2", "sellVouchers", "buyVouchers">>

\* ------------------------------------------------------------------------
\* C13: each of the four transactions is submitted at most once per run:
\* the transactions sent are a prefix of transfer 1, transfer 2, sell
\* vouchers, buy vouchers; after a failure of step k nothing follows the
\* k-th (or k-1-th) submission, and no transaction moves funds back.
\* ------------------------------------------------------------------------
C13_SubmittedAtMostOnce ==
    /\ Len(submitted) <= 4
    /\ \A i \in 1..Len(submitted) :
          /\ submitted[i].step = StepNames[i]
          /\ submitted[i].to \in {"tokenHolderContractAddress", "deqodeAddress"}
          /\ \A j \in 1..Len(submitted) : submitted[j].step = submitted[i].step => j = i
    /\ \A k \in Steps :
          StepFailed(k) =>
              Cardinality({i \in 1..Len(submitted) : submitted[i].step = StepNames[k]})
                  = (IF ConfirmationFailed(k) THEN 1 ELSE 0)

C13_Witness ==
    /\ ConfirmationFailed(2)
    /\ pc = "returned"
    /\ Len(submitted) = 2

\* ------------------------------------------------------------------------
\* C14 (as stated): when ctx is cancelled during the confirmation wait of
\* any of the four steps, the run aborts with the cancellation error, no
\* further transaction is submitted, and no receipt of that step is seen.
\* ------------------------------------------------------------------------
C14_CancelDuringAnyWait ==
    \A k \in Steps :
        cancelledAt.pc = WaitPc[k] =>
            /\ \A j \in Steps : j > k => txState[j] = "none"
            /\ \A i \in 1..Len(answers[k]) : answers[k][i] = "notFound"
            /\ pc = "returned" =>
                  waitResult[k] = "ctxErr" /\ retErr = WaitErrorFormat[k]

\* ------------------------------------------------------------------------
\* C14 (amended): when ctx is cancelled while waitForTx of any of the four
\* steps is blocked in the interval wait of its polling loop, the run aborts
\* with the cancellation error under that step's label, no further
\* transaction is submitted, and no receipt of that step is seen.
\* ------------------------------------------------------------------------
C14_CancelInIntervalWait ==
    \A k \in Steps :
        CancelledInSelect(k) =>
            /\ \A j \in Steps : j > k => txState[j] = "none"
            /\ Len(submitted) = k
            /\ \A i \in 1..Len(answers[k]) : answers[k][i] = "notFound"
            /\ pc = "returned" =>
                  /\ waitResult[k] = "ctxErr"
                  /\ txState[k] = "abandoned"
                  /\ retErr = WaitErrorFormat[k]
                  /\ retMsg = ""
            /\ pc # "returned" =>
                  /\ pc = WaitPc[k]
                  /\ txState[k] = "pending"

C14_Witness ==
    /\ CancelledInSelect(3)
    /\ pc = "returned"
    /\ waitResult[3] = "ctxErr"
    /\ Len(submitted) = 3

\* ------------------------------------------------------------------------
\* C15: the error of a failing run identifies the stage that failed: the
\* label of the confirmation of step k is returned only when the
\* confirmation of step k failed, the label of the submission of step k only
\* when that submission failed, and the labels of the gas price query, the
\* balance query and the positivity check only when those failed.
\* ------------------------------------------------------------------------
C15_LabelIdentifiesStage ==
    (pc = "returned" /\ retErr # "") =>
        /\ \A k \in Steps :
              /\ retErr = WaitErrorFormat[k] => ConfirmationFailed(k)
              /\ retErr = SubmitErrorFormat[k] => SubmissionFailed(k)
        /\ retErr = "Failed to get gas price from ethereum client with error : %s" =>
              chainLog = <<ChainQuery("SuggestGasPrice", FALSE)>>
        /\ retErr = "Failed to get balance for vault with error : %s" =>
              (Len(chainLog) = 2 /\ ~chainLog[2].ok)
        /\ retErr = InsufficientFunds => (FeeChecked /\ vaultBalance <= 0)

\* ------------------------------------------------------------------------
\* C16: a transaction is submitted only after the gas price query
\* succeeded, then the balance query succeeded, then the net balance was
\* found strictly positive; a failure of either query or of the positivity
\* check ends the run with nothing submitted.
\* ------------------------------------------------------------------------
C16_SubmissionGated ==
    /\ (submitted # <<>> \/ pc \in {"transfer1", "wait1"}) =>
          /\ chainLog = <<ChainQuery("SuggestGasPrice", TRUE), ChainQuery("BalanceAt", TRUE)>>
          /\ FeeChecked
          /\ vaultBalance > 0
    /\ \A i \in 1..Len(chainLog) :
          ~chainLog[i].ok =>
              /\ i = Len(chainLog)
              /\ pc = "returned"
              /\ retErr \in EarlyErrors
              /\ submitted = <<>>
    /\ (FeeChecked /\ vaultBalance <= 0) =>
          /\ pc = "returned"
          /\ retErr = InsufficientFunds
          /\ submitted = <<>>
    /\ Len(chainLog) <= 2
    /\ chainLog # <<>> => chainLog[1].op = "SuggestGasPrice"
    /\ Len(chainLog) = 2 => chainLog[2].op = "BalanceAt"

C16_Witness ==
    /\ Len(submitted) = 1
    /\ vaultBalance = 1
    /\ chainLog = <<ChainQuery("SuggestGasPrice", TRUE), ChainQuery("BalanceAt", TRUE)>>

\* the most a transfer can cost in fees: gasLimit gas at gasPrice
MaxTransferFee == gasLimit * gasPrice

\* ------------------------------------------------------------------------
\* C18: the values of the transfers submitted, with gasLimit*gasPrice of
\* fees for each of the two transfers, never exceed the balance read: the
\* vault cannot go negative across both transfers; the value of the second
\* transfer comes from the net balance computed before the first.
\* ------------------------------------------------------------------------
C18_FeeSafety ==
    /\ 1 \in Sent =>
          submitted[1].value + MaxTransferFee <= rawBalance
    /\ 2 \in Sent =>
          /\ submitted[1].value + submitted[2].value + 2 * gasLimit * gasPrice <= rawBalance
          /\ rawBalance - (submitted[1].value + MaxTransferFee)
                         - (submitted[2].value + MaxTransferFee) >= 0
          /\ 3 * submitted[2].value <= 2 * (rawBalance - 2 * gasLimit * gasPrice)
    /\ FeeChecked => vaultBalance = rawBalance - 2 * gasLimit * gasPrice

C18_Witness ==
    /\ 2 \in Sent
    /\ gasPrice > 0
    /\ submitted[1].value + submitted[2].value + 2 * gasLimit * gasPrice = rawBalance

\* ------------------------------------------------------------------------
\* C19: every net balance >= 1 passes the positivity check; with a net
\* balance of 1 or 2 both transfers are still submitted, with value 0; the
\* part of the net balance not distributed is the net balance modulo 3.
\* ------------------------------------------------------------------------
C19_DustAccepted ==
    (FeeChecked /\ vaultBalance >= 1) =>
        /\ retErr # InsufficientFunds
        /\ pc # "returned" \/ retErr # "" \/ Len(submitted) = 4
        /\ (txState[1] = "confirmed" /\ pc # "transfer2") =>
              (2 \in Sent \/ SubmissionFailed(2))
        /\ vaultBalance \in {1, 2} =>
              /\ 1 \in Sent => submitted[1].value = 0
              /\ 2 \in Sent => submitted[2].value = 0
        /\ 2 \in Sent =>
              vaultBalance - (submitted[1].value + submitted[2].value) = vaultBalance % 3

C19_Witness ==
    /\ vaultBalance = 2
    /\ gasPrice > 0
    /\ 2 \in Sent
    /\ submitted[1].value = 0
    /\ submitted[2].value = 0

\* ------------------------------------------------------------------------
\* The polling loop without a cap on the "not found" answers: the counters
\* of one wait stop growing at MaxNotFound + 1, the loop itself goes on.
\* ------------------------------------------------------------------------
Saturated(n) == IF n < MaxNotFound + 1 THEN n + 1 ELSE n

\* variant: the timer may win the select although ctx is done
SelectTimerUnboundedOnly(k) ==
    /\ pc = WaitPc[k]
    /\ wpc = "select"
    /\ intervals' = [intervals EXCEPT ![k] = Saturated(@)]
    /\ wpc' = "query"
    /\ UNCHANGED <<pc, manualCommit, eventTime, submitted, retMsg, retErr>>
    /\ UNCHANGED ctxVars
    /\ UNCHANGED chainLog
    /\ UNCHANGED <<txState, answers, commits, lateQueries, waitResult>>
    /\ UNCHANGED moneyVars

\* line 200: the timer of time.After fires before ctx is done
SelectTimerUnbounded(k) ==
    /\ pc = WaitPc[k]
    /\ wpc = "select"
    /\ ~cancelled
    /\ intervals' = [intervals EXCEPT ![k] = Saturated(@)]
    /\ wpc' = "query"
    /\ UNCHANGED <<pc, manualCommit, eventTime, submitted, retMsg, retErr>>
    /\ UNCHANGED ctxVars
    /\ UNCHANGED chainLog
    /\ UNCHANGED <<txState, answers, commits, lateQueries, waitResult>>
    /\ UNCHANGED moneyVars

\* lines 203-209: the receipt is not found, the loop continues
PollNotFound(k) ==
    /\ pc = WaitPc[k]
    /\ wpc = "query"
    /\ IF NotFoundCount(answers[k]) < MaxNotFound
         THEN RecordQuery(k, "notFound")
         ELSE UNCHANGED <<answers, lateQueries>>
    /\ wpc' = "select"
    /\ UNCHANGED <<pc, txState, waitResult, retMsg, retErr>>
    /\ UNCHANGED <<manualCommit, eventTime, submitted>>
    /\ UNCHANGED ctxVars
    /\ UNCHANGED chainLog
    /\ UNCHANGED <<commits, intervals>>
    /\ UNCHANGED moneyVars

\* lines 203-215: the receipt query answers with an error or a receipt
PollResolved(k) ==
    /\ pc = WaitPc[k]
    /\ wpc = "query"
    /\ \E a \in Answers \ {"notFound"} :
          /\ RecordQuery(k, a)
          /\ WaitReturn(k, ReceiptResult(a))
    /\ UNCHANGED <<manualCommit, eventTime, submitted>>
    /\ UNCHANGED ctxVars
    /\ UNCHANGED chainLog
    /\ UNCHANGED <<commits, intervals>>
    /\ UNCHANGED moneyVars

\* the runs of the liveness check read a gas price of 0 or 1 and a balance
\* that leaves a net balance of 0 or 1: the amounts play no part in the wait
SuggestGasPriceSmall ==
    /\ SuggestGasPrice
    /\ gasPrice' \in {0, 1}

BalanceAtSmall ==
    /\ BalanceAt
    /\ rawBalance' \in {0, FeeReserve(gasPrice), FeeReserve(gasPrice) + 1}

\* the steps of HandleEvent and waitForTx, all but the cancellation of ctx
Program ==
    \/ ConfigParse
    \/ Dial
    \/ SuggestGasPriceSmall
    \/ VaultKey
    \/ ProcessingKey
    \/ BalanceAtSmall
    \/ FeeCheck
    \/ Transfer1
    \/ Transfer2
    \/ NewContract
    \/ SellVouchers
    \/ BuyVouchers
    \/ \E k \in Steps : WaitEntry(k)
    \/ \E k \in Steps : CommitReceipt(k)
    \/ \E k \in Steps : SelectDone(k)
    \/ \E k \in Steps : SelectTimerUnbounded(k)
    \/ \E k \in Steps : PollNotFound(k)
    \/ \E k \in Steps : PollResolved(k)
    \/ Success

LiveNext ==
    \/ Cancel
    \/ Program

\* the goroutine of HandleEvent keeps running; ctx need never be cancelled
LiveSpec == Init /\ [][LiveNext]_vars /\ WF_vars(Program)

\* ------------------------------------------------------------------------
\* C17: in polling mode waitForTx returns once ctx is cancelled, and returns
\* at the first answer other than not-found; the loop has no bound on the
\* number of polls: after every query another not-found answer is possible
\* and keeps the wait pending. With Commit() waitForTx always returns, after
\* one query.
\* ------------------------------------------------------------------------
C17_WaitTermination ==
    /\ \A k \in Steps : (pc = WaitPc[k] /\ cancelled) ~> Returned(k)
    /\ \A k \in Steps :
          (pc = WaitPc[k] /\ manualCommit) ~> (Returned(k) /\ Len(answers[k]) = 1)
    /\ [](\A k \in Steps :
            (pc = WaitPc[k] /\ wpc = "query") => ENABLED PollNotFound(k))

\* the confirmation wait of the first transfer is pending
C17_Witness ==
    /\ ~manualCommit
    /\ ~cancelled
    /\ pc = WaitPc[1]
    /\ wpc = "query"
    /\ intervals[1] = MaxNotFound + 1

\* C17 (the unbounded wait): were every polling wait to return, no run could
\* stay pending; the run that answers not-found forever refutes it.
C17_PollingAlwaysReturns ==
    \A k \in Steps : (pc = WaitPc[k]) ~> Returned(k)
====
